---------------------------- MODULE Spec2Model ----------------------------
(***************************************************************************)
(* A model of the SEC-filing analyzer's core:                              *)
(*   - DocumentIndex (src/core/data_storage/document_index.py): the filter *)
(*     builder, search with query-time de-duplication, add_documents;      *)
(*   - DocumentTextProcessor                                               *)
(*     (src/core/data_collection/document_processor.py): section           *)
(*     partitioning, normalisation, splitting, chunk assembly.             *)
(*                                                                         *)
(* Texts are sequences of characters (search side) or of tokens            *)
(* (processing side).  The vector engine and the text splitter are         *)
(* external libraries: their answers are nondeterministic choices.         *)
(***************************************************************************)
EXTENDS Integers, Sequences, FiniteSets, TLC

VARIABLES
    \* ---- DocumentIndex.search ----
    s_pc,                     \* position inside search
    filter_metadata,          \* argument of search
    limit,                    \* argument of search
    search_criteria,          \* local of search (line 45)
    engine_queries,           \* calls made to document_collection.query
    search_results,           \* ranked candidates the engine answered with
    pos,                      \* position of the zip loop (line 95)
    filtered_results,         \* local of _process_search_results (line 92)
    seen_content_signatures,  \* local of _process_search_results (line 93)
    processed_results,        \* value returned by search
    \* ---- DocumentIndex._construct_search_criteria on its own ----
    f_pc,
    f_input,
    f_output,
    \* ---- DocumentTextProcessor.process_document, then add_documents ----
    p_pc,                     \* position inside process_document
    document,                 \* the FilingRecord
    lines,                    \* text.split('\n') (line 82)
    line_pos,                 \* position of the loop over the lines
    document_sections,        \* local of _partition_into_sections
    current_content,          \* local of _partition_into_sections
    current_category,         \* local of _partition_into_sections
    sec_pos,                  \* position of the loop over the sections
    text_segments,            \* local of process_document, its result
    add_calls,                \* calls made to document_collection.add
    \* ---- FilingAnalysisEngine._retrieve_and_process_entity_data ----
    i_pc,                     \* position inside the loop over the symbols
    sym_pos,                  \* position of the loop over the symbols
    filing_records,           \* filings fetched for the current symbol
    fil_pos,                  \* position of the loop over the filings
    attempted,                \* symbols whose loop body was entered, in order
    processed,                \* filings process_document was called on
    collection,               \* ids the engine holds, in the order added
    errors                    \* failures the except clause caught: the symbol,
                              \* the filing it occurred at (0: the fetch), and
                              \* the number of filings fetched

search_vars == <<s_pc, filter_metadata, limit, search_criteria, engine_queries,
                 search_results, pos, filtered_results,
                 seen_content_signatures, processed_results>>
filter_vars == <<f_pc, f_input, f_output>>
process_vars == <<p_pc, document, lines, line_pos, document_sections,
                  current_content, current_category, sec_pos, text_segments,
                  add_calls>>
ingest_vars == <<i_pc, sym_pos, filing_records, fil_pos, attempted, processed,
                 collection, errors>>
vars == <<search_vars, filter_vars, process_vars, ingest_vars>>

-----------------------------------------------------------------------------
(* Bounds of the model *)

MaxCand == 3       \* longest candidate list the engine answers with
MaxLimit == 2      \* largest limit passed to search
MaxIn == 2         \* longest "$in" member list of a filter
MaxFields == 2     \* most fields of a filter
MaxLines == 3      \* most lines of a filing text
MaxPieces == 2     \* most pieces the splitter cuts one section into
MaxSymbols == 2    \* symbols passed to the ingestion loop
MaxFilings == 2    \* most filings fetched for one symbol

(* Program constants *)

SigLen == 100      \* document_content[:100]
OverFetch == 2     \* n_results = limit * 2

Min(a, b) == IF a <= b THEN a ELSE b

-----------------------------------------------------------------------------
(* Filter specifications and predicates                                    *)

\* A filter value: a scalar (vs holds it), a dict holding "$in" (vs is the
\* member list), a dict without "$in", or a list.
Scalar(v) == [t |-> "scalar", vs |-> <<v>>]
InSet(ms) == [t |-> "in", vs |-> ms]
OtherDict == [t |-> "dict", vs |-> <<>>]
ListOf(ms) == [t |-> "list", vs |-> ms]

\* filter_metadata: None (present = FALSE) or a dict, kept in insertion order.
NoFilter == [present |-> FALSE, items |-> <<>>]
FilterOf(items) == [present |-> TRUE, items |-> items]

\* The engine's predicate tree.
NoCriteria == [op |-> "none"]
Eq(k, v) == [op |-> "eq", key |-> k, val |-> v]
Or(cs) == [op |-> "or", children |-> cs]
And(cs) == [op |-> "and", children |-> cs]

\* Lines 65-76: the condition of one (key, value) item.
SearchConditionAlwaysOr(key, value) ==
    IF value.t = "in"
    THEN Or([i \in 1..Len(value.vs) |-> Eq(key, Scalar(value.vs[i]))])
    ELSE Eq(key, value)

SearchCondition(key, value) ==
    IF value.t = "in"
    THEN IF Len(value.vs) = 1
         THEN Eq(key, Scalar(value.vs[1]))
         ELSE Or([i \in 1..Len(value.vs) |-> Eq(key, Scalar(value.vs[i]))])
    ELSE Eq(key, value)

\* Lines 62-76: search_conditions after the loop over filter_metadata.items().
SearchConditions(fm) ==
    [i \in 1..Len(fm.items) |->
        SearchCondition(fm.items[i].key, fm.items[i].value)]

\* Lines 58-81.
ConstructSearchCriteria(fm) ==
    IF ~fm.present \/ fm.items = <<>>
    THEN NoCriteria
    ELSE IF Len(SearchConditions(fm)) = 1
         THEN SearchConditions(fm)[1]
         ELSE And(SearchConditions(fm))

\* Inputs of the filter builder.
FilterKeys == <<"ticker", "filing_type", "section">>
FilterScalars == {"AAPL", "10-K"}
SeqsUpTo(S, n) == UNION {[1..k -> S] : k \in 0..n}
FilterValues ==
    {Scalar(v) : v \in FilterScalars}
        \cup {InSet(ms) : ms \in SeqsUpTo(FilterScalars, MaxIn)}
        \cup {OtherDict, ListOf(<<"AAPL">>)}
\* Dict keys are distinct: the k-th item carries the k-th key.
FilterSpecs ==
    {NoFilter} \cup
    UNION {{FilterOf([i \in 1..n |-> [key |-> FilterKeys[i], value |-> vals[i]]]) :
               vals \in [1..n -> FilterValues]} :
           n \in 0..Min(MaxFields, Len(FilterKeys))}

-----------------------------------------------------------------------------
(* The filter builder on its own                                           *)

InitFilter ==
    /\ f_pc = "input"
    /\ f_input \in FilterSpecs
    /\ f_output = NoCriteria

ConstructCriteria ==
    /\ f_pc = "input"
    /\ f_output' = ConstructSearchCriteria(f_input)
    /\ f_pc' = "built"
    /\ UNCHANGED f_input

-----------------------------------------------------------------------------
(* Texts and metadata on the search side                                   *)

Fill(c, n) == [i \in 1..n |-> c]

\* Line 99: document_content[:100].
ContentSignatureWholeText(text) == text

ContentSignature(text) == SubSeq(text, 1, Min(SigLen, Len(text)))

\* str.split(sep) on a sequence of tokens: the pieces between the separators,
\* empty pieces kept.
RECURSIVE SplitOn(_, _)
SplitOn(s, sep) ==
    IF \E i \in 1..Len(s) : s[i] = sep
    THEN LET i == CHOOSE j \in 1..Len(s) :
                      s[j] = sep /\ \A k \in 1..(j - 1) : s[k] # sep
         IN <<SubSeq(s, 1, i - 1)>> \o SplitOn(SubSeq(s, i + 1, Len(s)), sep)
    ELSE <<s>>

\* str.join: the pieces with sep between them.
RECURSIVE JoinWith(_, _)
JoinWith(pieces, sep) ==
    IF pieces = <<>> THEN <<>>
    ELSE IF Len(pieces) = 1 THEN pieces[1]
    ELSE pieces[1] \o <<sep>> \o JoinWith(Tail(pieces), sep)

\* Lines 104-105: [float(x) for x in value.split(',') if x].  A serialized
\* metric list is a sequence of tokens, "," being the separator.
ParseMetricList(s) == SelectSeq(SplitOn(s, ","), LAMBDA x : x # <<>>)

\* Lines 103-106: the metadata as emitted; metrics_summary = <<>> stands for
\* the key being absent, <<n, m>> for "Found n currency amounts and m
\* percentage values".
AnnotateMetadata(md) ==
    IF md.has_metrics = "true"
    THEN [md EXCEPT !.metrics_summary =
             <<Len(ParseMetricList(md.currency_amounts)),
               Len(ParseMetricList(md.percentages))>>]
    ELSE md

\* Line 108: filtered_results.append(...).
EmitFirst(results, entry) == <<entry>> \o results

Emit(results, entry) == Append(results, entry)

StoredMetadata(id, hm, cur, pct) ==
    [filing_id |-> "F1", chunk_index |-> id, has_metrics |-> hm,
     currency_amounts |-> cur, percentages |-> pct, metrics_summary |-> <<>>]

\* Documents held by the engine.  The first two share their first SigLen
\* characters and differ after them; the next two differ at character
\* SigLen; the fifth repeats the first text under other metadata.
StoredDocs ==
    { [text |-> Fill("a", SigLen) \o <<"x">>,
       metadata |-> StoredMetadata(0, "false", <<>>, <<>>)],
      [text |-> Fill("a", SigLen) \o <<"y">>,
       metadata |-> StoredMetadata(1, "true", <<"5.0", ",", "5.0">>, <<>>)],
      [text |-> Fill("a", SigLen - 1) \o <<"x">>,
       metadata |-> StoredMetadata(2, "true", <<>>, <<"7.0">>)],
      [text |-> Fill("a", SigLen - 1) \o <<"y">>,
       metadata |-> StoredMetadata(3, "false", <<>>, <<>>)],
      [text |-> Fill("a", SigLen) \o <<"x">>,
       metadata |-> StoredMetadata(4, "true", <<"5.0">>, <<"7.0">>)],
      [text |-> <<"b">>,
       metadata |-> StoredMetadata(5, "false", <<>>, <<>>)] }

CandidateLists == SeqsUpTo(StoredDocs, MaxCand)

\* Filters passed to search.
SearchFilters ==
    { NoFilter,
      FilterOf(<<>>),
      FilterOf(<<[key |-> "ticker", value |-> InSet(<<"AAPL">>)]>>),
      FilterOf(<<[key |-> "ticker", value |-> OtherDict]>>) }

EmptyResults == [documents |-> <<>>, metadatas |-> <<>>]

-----------------------------------------------------------------------------
(* DocumentIndex.search                                                    *)

\* Lines 45-51: build the criteria and query the engine.
SearchCall(fm, lim) ==
    /\ s_pc = "idle"
    /\ filter_metadata' = fm
    /\ limit' = lim
    /\ search_criteria' = ConstructSearchCriteria(fm)
    /\ engine_queries' =
           Append(engine_queries,
                  [n_results |-> lim * OverFetch,
                   where |-> ConstructSearchCriteria(fm)])
    /\ s_pc' = "querying"
    /\ UNCHANGED <<search_results, pos, filtered_results,
                   seen_content_signatures, processed_results>>

\* The engine answers with a ranked candidate list; lines 88-93.
EngineAnswers(cands) ==
    /\ s_pc = "querying"
    /\ search_results' = cands
    /\ IF cands = <<>>
       THEN /\ processed_results' = EmptyResults
            /\ s_pc' = "returned"
       ELSE /\ processed_results' = processed_results
            /\ s_pc' = "dedup"
    /\ pos' = 1
    /\ filtered_results' = <<>>
    /\ seen_content_signatures' = {}
    /\ UNCHANGED <<filter_metadata, limit, search_criteria, engine_queries>>

\* The engine raises; search propagates it.
EngineRaises ==
    /\ s_pc = "querying"
    /\ s_pc' = "raised"
    /\ UNCHANGED <<filter_metadata, limit, search_criteria, engine_queries,
                   search_results, pos, filtered_results,
                   seen_content_signatures, processed_results>>

\* Lines 95-111: one iteration of the loop over the candidates.
DedupStep ==
    /\ s_pc = "dedup"
    /\ LET doc == search_results[pos]
           sig == ContentSignature(doc.text)
           fresh == sig \notin seen_content_signatures
           out == IF fresh
                  THEN Emit(filtered_results,
                            [text |-> doc.text,
                             metadata |-> AnnotateMetadata(doc.metadata)])
                  ELSE filtered_results
       IN /\ seen_content_signatures' =
                 IF fresh THEN seen_content_signatures \cup {sig}
                          ELSE seen_content_signatures
          /\ filtered_results' = out
          /\ IF Len(out) >= limit \/ pos = Len(search_results)
             THEN s_pc' = "collect" /\ pos' = pos
             ELSE s_pc' = "dedup" /\ pos' = pos + 1
    /\ UNCHANGED <<filter_metadata, limit, search_criteria, engine_queries,
                   search_results, processed_results>>

\* Lines 113-118: unzip and return.
ReturnResults ==
    /\ s_pc = "collect"
    /\ processed_results' =
           [documents |-> [i \in 1..Len(filtered_results) |->
                              filtered_results[i].text],
            metadatas |-> [i \in 1..Len(filtered_results) |->
                              filtered_results[i].metadata]]
    /\ s_pc' = "returned"
    /\ UNCHANGED <<filter_metadata, limit, search_criteria, engine_queries,
                   search_results, pos, filtered_results,
                   seen_content_signatures>>

-----------------------------------------------------------------------------
(* DocumentTextProcessor                                                   *)

\* A filing text is a sequence of tokens.  " ", "\t" and "\n" are whitespace,
\* "#" is a character the normaliser removes, "w" is a word, "$5" a currency
\* literal, "7%" a percentage; the other tokens are heading phrases, each
\* matched by the pattern of its category.
WhitespaceTokens == {" ", "\t", "\n"}
StrippedTokens == {"#"}

\* Lines 19-25: the table of patterns, in its order.
SectionIdentifiers ==
    << [type |-> "risk_factors", phrase |-> "Risk Factors"],
       [type |-> "mda", phrase |-> "Management's Discussion and Analysis"],
       [type |-> "business", phrase |-> "Business"],
       [type |-> "financial_statements", phrase |-> "Financial Statements"],
       [type |-> "market_risk",
        phrase |-> "Quantitative and Qualitative Disclosures About Market Risk"] >>

PatternFound(k, text) == \E i \in 1..Len(text) : text[i] = SectionIdentifiers[k].phrase

\* Lines 27-32: the first pattern of the table found in the text.
DetermineSectionType(text) ==
    IF \E k \in 1..Len(SectionIdentifiers) : PatternFound(k, text)
    THEN SectionIdentifiers[
             CHOOSE k \in 1..Len(SectionIdentifiers) :
                 /\ PatternFound(k, text)
                 /\ \A j \in 1..(k - 1) : ~PatternFound(j, text)].type
    ELSE "other"

\* str.split(): the maximal runs of tokens that are not whitespace.
RECURSIVE SplitWhitespace(_)
SplitWhitespace(s) ==
    IF s = <<>> THEN <<>>
    ELSE IF Head(s) \in WhitespaceTokens THEN SplitWhitespace(Tail(s))
    ELSE LET n == IF \E i \in 1..Len(s) : s[i] \in WhitespaceTokens
                  THEN (CHOOSE i \in 1..Len(s) :
                            /\ s[i] \in WhitespaceTokens
                            /\ \A k \in 1..(i - 1) : s[k] \notin WhitespaceTokens) - 1
                  ELSE Len(s)
         IN <<SubSeq(s, 1, n)>> \o SplitWhitespace(SubSeq(s, n + 1, Len(s)))

\* Line 38: every character outside the kept class becomes a space.
ReplaceStripped(s) ==
    [i \in 1..Len(s) |-> IF s[i] \in StrippedTokens THEN " " ELSE s[i]]

\* Line 40: re.sub(r'\s+', ' ', text).
RECURSIVE CollapseWhitespace(_)
CollapseWhitespace(s) ==
    IF s = <<>> THEN <<>>
    ELSE IF Head(s) \in WhitespaceTokens
    THEN IF Len(s) > 1 /\ s[2] \in WhitespaceTokens
         THEN CollapseWhitespace(Tail(s))
         ELSE <<" ">> \o CollapseWhitespace(Tail(s))
    ELSE <<Head(s)>> \o CollapseWhitespace(Tail(s))

\* Line 41: str.strip().
RECURSIVE Strip(_)
Strip(s) ==
    IF s = <<>> THEN <<>>
    ELSE IF Head(s) \in WhitespaceTokens THEN Strip(Tail(s))
    ELSE IF s[Len(s)] \in WhitespaceTokens THEN Strip(SubSeq(s, 1, Len(s) - 1))
    ELSE s

\* Lines 34-41.
NormalizeText(text) ==
    Strip(CollapseWhitespace(ReplaceStripped(JoinWith(SplitWhitespace(text), " "))))

\* The state of the loop of _partition_into_sections.
PartitionStart == [sections |-> <<>>, content |-> <<>>, category |-> "other"]

\* Lines 83-90: one line of the loop.
PartitionLineNoReset(st, line) ==
    LET cat == DetermineSectionType(line)
    IN IF cat # "other"
       THEN [sections |-> IF st.content # <<>>
                          THEN Append(st.sections,
                                      [content |-> st.content,
                                       category |-> st.category])
                          ELSE st.sections,
             content |-> st.content \o <<"\n">> \o line,
             category |-> cat]
       ELSE [st EXCEPT !.content = st.content \o <<"\n">> \o line]

PartitionLine(st, line) ==
    LET cat == DetermineSectionType(line)
    IN IF cat # "other"
       THEN [sections |-> IF st.content # <<>>
                          THEN Append(st.sections,
                                      [content |-> st.content,
                                       category |-> st.category])
                          ELSE st.sections,
             content |-> line,
             category |-> cat]
       ELSE [st EXCEPT !.content = st.content \o <<"\n">> \o line]

\* Lines 92-95: the last section.
PartitionFinish(st) ==
    IF st.content # <<>>
    THEN Append(st.sections, [content |-> st.content, category |-> st.category])
    ELSE st.sections

\* Lines 103-109: the currency literals of the text, in order, as floats.
CurrencyAmounts(text) ==
    LET hits == SelectSeq(text, LAMBDA tok : tok = "$5")
    IN [i \in 1..Len(hits) |-> "5.0"]

\* Lines 111-112: the percentages of the text, in order, as floats.
Percentages(text) ==
    LET hits == SelectSeq(text, LAMBDA tok : tok = "7%")
    IN [i \in 1..Len(hits) |-> "7.0"]

\* Lines 97-114.
ExtractFinancialMetrics(text) ==
    [currency_amounts |-> CurrencyAmounts(text), percentages |-> Percentages(text)]

\* Lines 69-70: ','.join(map(str, values)).
SerializeMetricsNoSeparator(values) ==
    JoinWith([i \in 1..Len(values) |-> <<values[i]>>], "")

SerializeMetrics(values) ==
    JoinWith([i \in 1..Len(values) |-> <<values[i]>>], ",")

\* Lines 13-17 and 53: the pieces RecursiveCharacterTextSplitter cuts a
\* normalised text into.  The splitter is a library: its answer is any cut
\* of the text's words into at most MaxPieces runs, none for a text without
\* words.
Cuts(n) ==
    {c \in SUBSET (1..(n - 1)) : Cardinality(c) <= MaxPieces - 1}

PiecesOf(words, cut) ==
    LET ends == cut \cup {Len(words)}
        EndOf(k) == CHOOSE e \in ends : Cardinality({x \in ends : x <= e}) = k
        StartOf(k) == IF k = 1 THEN 1 ELSE EndOf(k - 1) + 1
    IN [k \in 1..Cardinality(ends) |->
           JoinWith(SubSeq(words, StartOf(k), EndOf(k)), " ")]

SplitTextOrWhole(text) ==
    LET words == SplitWhitespace(text)
    IN IF words = <<>> THEN {<<text>>}
       ELSE {PiecesOf(words, cut) : cut \in Cuts(Len(words))}

SplitText(text) ==
    LET words == SplitWhitespace(text)
    IN IF words = <<>> THEN {<<>>}
       ELSE {PiecesOf(words, cut) : cut \in Cuts(Len(words))}

\* Lines 55-73: the chunk records of one section.
SectionChunksGlobalTotal(doc, section_category, text_pieces, segments) ==
    [i \in 1..Len(text_pieces) |->
        LET financial_data == ExtractFinancialMetrics(text_pieces[i])
        IN [text |-> text_pieces[i],
            metadata |->
                [filing_id |-> doc.record_identifier,
                 company_name |-> doc.entity_name,
                 ticker |-> doc.stock_symbol,
                 filing_type |-> doc.document_category,
                 filing_date |-> doc.submission_date,
                 section |-> section_category,
                 chunk_index |-> i - 1,
                 total_chunks |-> Len(segments) + Len(text_pieces),
                 currency_amounts |->
                     SerializeMetrics(financial_data.currency_amounts),
                 percentages |-> SerializeMetrics(financial_data.percentages),
                 has_metrics |->
                     IF financial_data.currency_amounts # <<>>
                            \/ financial_data.percentages # <<>>
                     THEN "true" ELSE "false"]]]

SectionChunks(doc, section_category, text_pieces, segments) ==
    [i \in 1..Len(text_pieces) |->
        LET financial_data == ExtractFinancialMetrics(text_pieces[i])
        IN [text |-> text_pieces[i],
            metadata |->
                [filing_id |-> doc.record_identifier,
                 company_name |-> doc.entity_name,
                 ticker |-> doc.stock_symbol,
                 filing_type |-> doc.document_category,
                 filing_date |-> doc.submission_date,
                 section |-> section_category,
                 chunk_index |-> i - 1,
                 total_chunks |-> Len(text_pieces),
                 currency_amounts |->
                     SerializeMetrics(financial_data.currency_amounts),
                 percentages |-> SerializeMetrics(financial_data.percentages),
                 has_metrics |->
                     IF financial_data.currency_amounts # <<>>
                            \/ financial_data.percentages # <<>>
                     THEN "true" ELSE "false"]]]

\* document_index.py line 31: the storage id of a chunk record.
DocumentId(doc) ==
    doc.metadata.filing_id \o "_" \o ToString(doc.metadata.chunk_index)

\* The lines a filing text is made of.
FilingLines ==
    { <<>>,
      <<" ", "\t">>,
      <<"#">>,
      <<"w", " ", " ", "$5", "#", "7%">>,
      <<"Risk Factors">>,
      <<"Business", " ", "Risk Factors">>,
      <<"Management's Discussion and Analysis", " ", "w">> }

FilingTexts ==
    {JoinWith(ls, "\n") : ls \in UNION {[1..n -> FilingLines] : n \in 1..MaxLines}}

FilingRecord(text) ==
    [record_identifier |-> "0000320193-24-000001",
     entity_name |-> "Apple Inc.",
     stock_symbol |-> "AAPL",
     document_category |-> "10-K",
     submission_date |-> "2024-01-01 00:00:00",
     content_text |-> text]

\* Lines 44-47: an empty text returns at once, any other is partitioned.
ProcessDocument ==
    /\ p_pc = "start"
    /\ IF document.content_text = <<>>
       THEN /\ p_pc' = "returned"
            /\ lines' = lines
       ELSE /\ p_pc' = "partition"
            /\ lines' = SplitOn(document.content_text, "\n")
    /\ UNCHANGED <<document, line_pos, document_sections, current_content,
                   current_category, sec_pos, text_segments, add_calls>>

\* Lines 82-90: one line of the text.
PartitionStep ==
    /\ p_pc = "partition"
    /\ line_pos <= Len(lines)
    /\ LET st == PartitionLine([sections |-> document_sections,
                                content |-> current_content,
                                category |-> current_category],
                               lines[line_pos])
       IN /\ document_sections' = st.sections
          /\ current_content' = st.content
          /\ current_category' = st.category
    /\ line_pos' = line_pos + 1
    /\ UNCHANGED <<p_pc, document, lines, sec_pos, text_segments, add_calls>>

\* Lines 92-95: the loop is over; the last section is appended.
PartitionEnd ==
    /\ p_pc = "partition"
    /\ line_pos > Len(lines)
    /\ document_sections' =
           PartitionFinish([sections |-> document_sections,
                            content |-> current_content,
                            category |-> current_category])
    /\ p_pc' = "sections"
    /\ UNCHANGED <<document, lines, line_pos, current_content,
                   current_category, sec_pos, text_segments, add_calls>>

\* Lines 49-73: one section is normalised, split and assembled.
ProcessSection ==
    /\ p_pc = "sections"
    /\ sec_pos <= Len(document_sections)
    /\ LET processed_text == NormalizeText(document_sections[sec_pos].content)
       IN \E text_pieces \in SplitText(processed_text) :
              text_segments' =
                  text_segments \o
                      SectionChunks(document,
                                    document_sections[sec_pos].category,
                                    text_pieces, text_segments)
    /\ sec_pos' = sec_pos + 1
    /\ UNCHANGED <<p_pc, document, lines, line_pos, document_sections,
                   current_content, current_category, add_calls>>

\* Line 75.
ReturnSegments ==
    /\ p_pc = "sections"
    /\ sec_pos > Len(document_sections)
    /\ p_pc' = "returned"
    /\ UNCHANGED <<document, lines, line_pos, document_sections,
                   current_content, current_category, sec_pos, text_segments,
                   add_calls>>

\* document_index.py lines 29-31: the parallel arrays of one add call.
AddBatch(documents) ==
    [documents |-> [i \in 1..Len(documents) |-> documents[i].text],
     metadatas |-> [i \in 1..Len(documents) |-> documents[i].metadata],
     ids |-> [i \in 1..Len(documents) |-> DocumentId(documents[i])]]

\* document_index.py lines 26-37: the calls made to document_collection.add
\* once add_documents has run on the records.
AddCallsUnguarded(calls, documents) == Append(calls, AddBatch(documents))

AddCalls(calls, documents) ==
    IF documents = <<>> THEN calls ELSE Append(calls, AddBatch(documents))

\* document_index.py lines 25-37: add_documents on the chunk records.
AddDocuments ==
    /\ p_pc = "returned"
    /\ add_calls' = AddCalls(add_calls, text_segments)
    /\ p_pc' = "ingested"
    /\ UNCHANGED <<document, lines, line_pos, document_sections,
                   current_content, current_category, sec_pos, text_segments>>

-----------------------------------------------------------------------------
(* FilingAnalysisEngine._retrieve_and_process_entity_data                  *)

\* main_analyzer.py lines 22-23 and 28: the symbols, in list order.
EntityList ==
    <<"AAPL", "MSFT", "GOOGL", "META", "AMZN", "JPM", "BAC", "GS", "MS", "WFC">>

Symbols == SubSeq(EntityList, 1, Min(MaxSymbols, Len(EntityList)))

\* process_document as a function of the filing: every result the splitter's
\* choices allow.
RECURSIVE PartitionLoop(_, _)
PartitionLoop(st, ls) ==
    IF ls = <<>> THEN st
    ELSE PartitionLoop(PartitionLine(st, Head(ls)), Tail(ls))

PartitionIntoSections(text) ==
    PartitionFinish(PartitionLoop(PartitionStart, SplitOn(text, "\n")))

RECURSIVE SegmentsFrom(_, _, _)
SegmentsFrom(doc, sections, segments) ==
    IF sections = <<>> THEN {segments}
    ELSE UNION { SegmentsFrom(doc, Tail(sections),
                              segments \o
                                  SectionChunks(doc, Head(sections).category,
                                                pieces, segments)) :
                   pieces \in SplitText(NormalizeText(Head(sections).content)) }

ProcessDocumentResults(doc) ==
    IF doc.content_text = <<>> THEN {<<>>}
    ELSE SegmentsFrom(doc, PartitionIntoSections(doc.content_text), <<>>)

\* edgar_fetcher.py lines 140-143: a fetched text is one line, its
\* whitespace collapsed, never empty.  The second text holds only characters
\* the normaliser removes, so it yields no chunk.
FetchedTexts == { <<"w">>, <<"#">> }

\* edgar_fetcher.py lines 91-104: the k-th filing fetched for a symbol.
FetchedRecord(symbol, k, text) ==
    [record_identifier |-> symbol \o "-" \o ToString(k),
     entity_name |-> symbol,
     stock_symbol |-> symbol,
     document_category |-> "10-K",
     submission_date |-> "2024-01-01 00:00:00",
     content_text |-> text]

\* edgar_fetcher.py lines 68-110: the lists retrieve_filings may return.
FetchedLists(symbol) ==
    UNION { { [k \in 1..n |-> FetchedRecord(symbol, k, texts[k])] :
                texts \in [1..n -> FetchedTexts] } :
            n \in 0..MaxFilings }

\* Lines 47 and 67-68: where the loop goes on after the except clause ran.
ResumeAtEndOfList(position, symbols) == Len(symbols) + 1

ResumeAt(position, symbols) == position + 1

\* Lines 47-56: the loop body is entered and retrieve_filings returns.
FetchReturns ==
    /\ i_pc = "symbol"
    /\ sym_pos <= Len(Symbols)
    /\ attempted' = Append(attempted, Symbols[sym_pos])
    /\ \E records \in FetchedLists(Symbols[sym_pos]) : filing_records' = records
    /\ fil_pos' = 1
    /\ i_pc' = "filing"
    /\ UNCHANGED <<sym_pos, processed, collection, errors>>

\* Lines 47-55 and 67-68: retrieve_filings raises; the except clause runs.
FetchRaises ==
    /\ i_pc = "symbol"
    /\ sym_pos <= Len(Symbols)
    /\ attempted' = Append(attempted, Symbols[sym_pos])
    /\ errors' = Append(errors, [symbol |-> Symbols[sym_pos], at |-> 0, of |-> 0])
    /\ sym_pos' = ResumeAt(sym_pos, Symbols)
    /\ UNCHANGED <<i_pc, filing_records, fil_pos, processed, collection>>

\* Lines 58-65: one filing is processed and, if it has chunks, added.
IngestFiling ==
    /\ i_pc = "filing"
    /\ fil_pos <= Len(filing_records)
    /\ processed' = Append(processed, filing_records[fil_pos].record_identifier)
    /\ \E segments \in ProcessDocumentResults(filing_records[fil_pos]) :
           collection' =
               IF AddCalls(<<>>, segments) = <<>>
               THEN collection
               ELSE collection \o AddCalls(<<>>, segments)[1].ids
    /\ fil_pos' = fil_pos + 1
    /\ UNCHANGED <<i_pc, sym_pos, filing_records, attempted, errors>>

\* Lines 58-62 and 67-68: the engine raises on add; the except clause runs
\* and the symbol's remaining filings are left.
IngestFilingRaises ==
    /\ i_pc = "filing"
    /\ fil_pos <= Len(filing_records)
    /\ processed' = Append(processed, filing_records[fil_pos].record_identifier)
    /\ \E segments \in ProcessDocumentResults(filing_records[fil_pos]) :
           AddCalls(<<>>, segments) # <<>>
    /\ errors' = Append(errors, [symbol |-> Symbols[sym_pos], at |-> fil_pos,
                                 of |-> Len(filing_records)])
    /\ sym_pos' = ResumeAt(sym_pos, Symbols)
    /\ i_pc' = "symbol"
    /\ UNCHANGED <<filing_records, fil_pos, attempted, collection>>

\* Lines 58-59 and 67-68: process_document raises (the splitter is a
\* library call); the except clause runs.
ProcessRaises ==
    /\ i_pc = "filing"
    /\ fil_pos <= Len(filing_records)
    /\ processed' = Append(processed, filing_records[fil_pos].record_identifier)
    /\ errors' = Append(errors, [symbol |-> Symbols[sym_pos], at |-> fil_pos,
                                 of |-> Len(filing_records)])
    /\ sym_pos' = ResumeAt(sym_pos, Symbols)
    /\ i_pc' = "symbol"
    /\ UNCHANGED <<filing_records, fil_pos, attempted, collection>>

\* Line 58: the filings of the symbol are exhausted.
FilingsDone ==
    /\ i_pc = "filing"
    /\ fil_pos > Len(filing_records)
    /\ sym_pos' = sym_pos + 1
    /\ i_pc' = "symbol"
    /\ UNCHANGED <<filing_records, fil_pos, attempted, processed, collection,
                   errors>>

\* Line 47: the symbols are exhausted.
SymbolsDone ==
    /\ i_pc = "symbol"
    /\ sym_pos > Len(Symbols)
    /\ i_pc' = "done"
    /\ UNCHANGED <<sym_pos, filing_records, fil_pos, attempted, processed,
                   collection, errors>>

IngestOff ==
    /\ i_pc = "off"
    /\ sym_pos = 1
    /\ filing_records = <<>>
    /\ fil_pos = 1
    /\ attempted = <<>>
    /\ processed = <<>>
    /\ collection = <<>>
    /\ errors = <<>>

InitIngest ==
    /\ i_pc = "symbol"
    /\ sym_pos = 1
    /\ filing_records = <<>>
    /\ fil_pos = 1
    /\ attempted = <<>>
    /\ processed = <<>>
    /\ collection = <<>>
    /\ errors = <<>>

-----------------------------------------------------------------------------
(* Specifications                                                          *)

SearchIdle ==
    /\ s_pc = "idle"
    /\ filter_metadata = NoFilter
    /\ limit = 0
    /\ search_criteria = NoCriteria
    /\ engine_queries = <<>>
    /\ search_results = <<>>
    /\ pos = 1
    /\ filtered_results = <<>>
    /\ seen_content_signatures = {}
    /\ processed_results = EmptyResults

FilterOff ==
    /\ f_pc = "off"
    /\ f_input = NoFilter
    /\ f_output = NoCriteria

ProcessOff ==
    /\ p_pc = "off"
    /\ document = FilingRecord(<<>>)
    /\ lines = <<>>
    /\ line_pos = 1
    /\ document_sections = <<>>
    /\ current_content = <<>>
    /\ current_category = "other"
    /\ sec_pos = 1
    /\ text_segments = <<>>
    /\ add_calls = <<>>

InitSearchSpec == SearchIdle /\ FilterOff /\ ProcessOff /\ IngestOff

NextSearch ==
    \/ /\ \E fm \in SearchFilters, lim \in 0..MaxLimit : SearchCall(fm, lim)
       /\ UNCHANGED <<filter_vars, process_vars, ingest_vars>>
    \/ /\ \E cands \in CandidateLists : EngineAnswers(cands)
       /\ UNCHANGED <<filter_vars, process_vars, ingest_vars>>
    \/ EngineRaises /\ UNCHANGED <<filter_vars, process_vars, ingest_vars>>
    \/ DedupStep /\ UNCHANGED <<filter_vars, process_vars, ingest_vars>>
    \/ ReturnResults /\ UNCHANGED <<filter_vars, process_vars, ingest_vars>>

SpecSearch == InitSearchSpec /\ [][NextSearch]_vars

InitFilterSpec == InitFilter /\ SearchIdle /\ ProcessOff /\ IngestOff

NextFilter == ConstructCriteria /\ UNCHANGED <<search_vars, process_vars, ingest_vars>>

SpecFilter == InitFilterSpec /\ [][NextFilter]_vars

InitProcess ==
    /\ p_pc = "start"
    /\ document \in {FilingRecord(text) : text \in FilingTexts}
    /\ lines = <<>>
    /\ line_pos = 1
    /\ document_sections = <<>>
    /\ current_content = <<>>
    /\ current_category = "other"
    /\ sec_pos = 1
    /\ text_segments = <<>>
    /\ add_calls = <<>>

InitProcessSpec == InitProcess /\ SearchIdle /\ FilterOff /\ IngestOff

NextProcess ==
    \/ ProcessDocument /\ UNCHANGED <<search_vars, filter_vars, ingest_vars>>
    \/ PartitionStep /\ UNCHANGED <<search_vars, filter_vars, ingest_vars>>
    \/ PartitionEnd /\ UNCHANGED <<search_vars, filter_vars, ingest_vars>>
    \/ ProcessSection /\ UNCHANGED <<search_vars, filter_vars, ingest_vars>>
    \/ ReturnSegments /\ UNCHANGED <<search_vars, filter_vars, ingest_vars>>
    \/ AddDocuments /\ UNCHANGED <<search_vars, filter_vars, ingest_vars>>

SpecProcess == InitProcessSpec /\ [][NextProcess]_vars

InitIngestSpec == InitIngest /\ SearchIdle /\ FilterOff /\ ProcessOff

NextIngest ==
    \/ SymbolsDone /\ UNCHANGED <<search_vars, filter_vars, process_vars>>
    \/ FilingsDone /\ UNCHANGED <<search_vars, filter_vars, process_vars>>
    \/ FetchRaises /\ UNCHANGED <<search_vars, filter_vars, process_vars>>
    \/ ProcessRaises /\ UNCHANGED <<search_vars, filter_vars, process_vars>>
    \/ FetchReturns /\ UNCHANGED <<search_vars, filter_vars, process_vars>>
    \/ IngestFiling /\ UNCHANGED <<search_vars, filter_vars, process_vars>>
    \/ IngestFilingRaises /\ UNCHANGED <<search_vars, filter_vars, process_vars>>

\* The loop is sequential code: as long as a step is possible, one is taken.
SpecIngest == InitIngestSpec /\ [][NextIngest]_vars /\ WF_vars(NextIngest)

-----------------------------------------------------------------------------
(* Properties of search (checked under SpecSearch)                         *)

\* The first 100 characters of a text, written out independently of the
\* model of line 99.
First100(text) == [i \in 1..(IF Len(text) < 100 THEN Len(text) ELSE 100) |-> text[i]]

Returned == s_pc = "returned"
ResultDocs == processed_results.documents
ResultMetas == processed_results.metadatas

\* The metadata as it was stored, without the summary search attaches.
Unannotated(md) == [md EXCEPT !.metrics_summary = <<>>]

\* The best rank at which a signature occurs among the candidates.
IsFirstRankOf(k, sig) ==
    /\ k \in 1..Len(search_results)
    /\ First100(search_results[k].text) = sig
    /\ \A j \in 1..(k - 1) : First100(search_results[j].text) # sig

\* C1: the result of search holds no two entries whose texts share their
\* first 100 characters, and each entry is the highest-ranked candidate
\* carrying its signature, with that candidate's text and metadata.
C1_DedupKeepsHighestRanked ==
    Returned =>
        /\ Len(ResultDocs) = Len(ResultMetas)
        /\ \A i, j \in 1..Len(ResultDocs) :
               i # j => First100(ResultDocs[i]) # First100(ResultDocs[j])
        /\ \A i \in 1..Len(ResultDocs) :
               \E k \in 1..Len(search_results) :
                   /\ IsFirstRankOf(k, First100(ResultDocs[i]))
                   /\ ResultDocs[i] = search_results[k].text
                   /\ Unannotated(ResultMetas[i]) = search_results[k].metadata

\* Witness of C1: two candidates that differ only after their first 100
\* characters, the limit leaving room for both, and one of them returned.
C1_Witness ==
    /\ Returned
    /\ limit >= 2
    /\ Len(ResultDocs) = 1
    /\ \E i, j \in 1..Len(search_results) :
           /\ i < j
           /\ search_results[i].text # search_results[j].text
           /\ First100(search_results[i].text) = First100(search_results[j].text)

\* C2: the number of (text, metadata) pairs search returns is at most limit,
\* for every candidate list and every limit, limit = 0 included.
C2_AtMostLimit ==
    Returned => Len(ResultDocs) <= limit /\ Len(ResultMetas) <= limit

DistinctSignatures ==
    {First100(search_results[i].text) : i \in 1..Len(search_results)}

\* C3: the result count equals min(limit, number of distinct signatures
\* among the candidates); with fewer than limit distinct signatures every
\* one of them is returned once; no candidates, no results.
C3_CountIsMinLimitDistinct ==
    Returned =>
        /\ Len(ResultDocs) = Min(limit, Cardinality(DistinctSignatures))
        /\ Cardinality(DistinctSignatures) < limit =>
               {First100(ResultDocs[i]) : i \in 1..Len(ResultDocs)}
                   = DistinctSignatures
        /\ search_results = <<>> => ResultDocs = <<>>

RECURSIVE IsSubsequence(_, _)
IsSubsequence(r, c) ==
    IF r = <<>> THEN TRUE
    ELSE IF c = <<>> THEN FALSE
    ELSE IF Head(r) = Head(c) THEN IsSubsequence(Tail(r), Tail(c))
    ELSE IsSubsequence(r, Tail(c))

ResultEntries ==
    [i \in 1..Len(ResultDocs) |->
        [text |-> ResultDocs[i], metadata |-> Unannotated(ResultMetas[i])]]

\* The rank of a returned text: the first candidate that carries it.
RankOf(text) ==
    CHOOSE k \in 1..Len(search_results) :
        /\ search_results[k].text = text
        /\ \A j \in 1..(k - 1) : search_results[j].text # text

\* C4: the result is a subsequence of the ranked candidate sequence: of two
\* returned results the earlier one had the better rank.
C4_RankOrderKept ==
    Returned =>
        /\ IsSubsequence(ResultEntries, search_results)
        /\ \A i, j \in 1..Len(ResultDocs) :
               i < j => RankOf(ResultDocs[i]) < RankOf(ResultDocs[j])

\* Witness of C4: two results returned around a skipped duplicate.
C4_Witness ==
    /\ Returned
    /\ Len(ResultDocs) = 2
    /\ Len(search_results) = 3
    /\ First100(search_results[2].text) = First100(search_results[1].text)
    /\ ResultDocs[2] = search_results[3].text

HasUnsupportedValue(fm) ==
    \E i \in 1..Len(fm.items) : fm.items[i].value.t \notin {"scalar", "in"}

\* C6: a filter whose field value is neither a scalar nor a set marker is
\* rejected before any engine query is issued; it never reaches the engine.
C6_UnsupportedFilterRejected ==
    HasUnsupportedValue(filter_metadata) => engine_queries = <<>>

-----------------------------------------------------------------------------
(* Properties of the filter builder (checked under SpecFilter)             *)

\* What the builder owes for one field, for the value shapes it supports.
FieldConditionOk(item, cond) ==
    LET k == item.key
        v == item.value
    IN CASE v.t = "scalar" ->
                cond = [op |-> "eq", key |-> k, val |-> v]
         [] v.t = "in" /\ Len(v.vs) = 1 ->
                cond = [op |-> "eq", key |-> k,
                        val |-> [t |-> "scalar", vs |-> <<v.vs[1]>>]]
         [] v.t = "in" /\ Len(v.vs) > 1 ->
                /\ cond.op = "or"
                /\ Len(cond.children) = Len(v.vs)
                /\ \A i \in 1..Len(v.vs) :
                       cond.children[i] =
                           [op |-> "eq", key |-> k,
                            val |-> [t |-> "scalar", vs |-> <<v.vs[i]>>]]
         [] OTHER -> TRUE

\* C5: no predicate for an empty or absent filter; equality for a scalar
\* and for a one-member set; an OR of equalities, in member order, for a
\* larger set; one field gives its condition directly, two or more give an
\* AND of the per-field conditions.
C5_FilterTranslation ==
    f_pc = "built" =>
        IF ~f_input.present \/ Len(f_input.items) = 0
        THEN f_output = [op |-> "none"]
        ELSE IF Len(f_input.items) = 1
        THEN FieldConditionOk(f_input.items[1], f_output)
        ELSE /\ f_output.op = "and"
             /\ Len(f_output.children) = Len(f_input.items)
             /\ \A i \in 1..Len(f_input.items) :
                    FieldConditionOk(f_input.items[i], f_output.children[i])

\* Witness of C5: a two-field filter, one set of one member and one of two.
C5_Witness ==
    /\ f_pc = "built"
    /\ Len(f_input.items) = 2
    /\ f_input.items[1].value.t = "in" /\ Len(f_input.items[1].value.vs) = 1
    /\ f_input.items[2].value.t = "in" /\ Len(f_input.items[2].value.vs) = 2
    /\ f_output.op = "and"

-----------------------------------------------------------------------------
(* Properties of process_document and add_documents (under SpecProcess)    *)

\* C7: the storage ids add_documents assigns to the chunk records of one
\* filing are pairwise distinct, also when the filing has two or more
\* sections that each yield a chunk.
C7_StorageIdsDistinct ==
    \A c \in 1..Len(add_calls) :
        \A i, j \in 1..Len(add_calls[c].ids) :
            i # j => add_calls[c].ids[i] # add_calls[c].ids[j]

\* C8: the chunks one section adds carry chunk_index 0, 1, ..., n-1 in
\* emission order, and total_chunks = n, the number of chunks of that
\* section; the chunks of earlier sections stay as they were.
C8_ChunkIndexPerSection ==
    [][ (p_pc = "sections" /\ sec_pos' = sec_pos + 1) =>
            LET base == Len(text_segments)
                n == Len(text_segments') - base
            IN /\ n >= 0
               /\ SubSeq(text_segments', 1, base) = text_segments
               /\ \A i \in 1..n :
                      /\ text_segments'[base + i].metadata.chunk_index = i - 1
                      /\ text_segments'[base + i].metadata.total_chunks = n
                      /\ text_segments'[base + i].metadata.section =
                             document_sections[sec_pos].category ]_vars

\* Witness of C8: a filing of two sections, the second cut into two chunks.
C8_Witness ==
    /\ p_pc = "returned"
    /\ Len(document_sections) = 2
    /\ Len(text_segments) = 3
    /\ text_segments[3].metadata.chunk_index = 1
    /\ text_segments[3].metadata.total_chunks = 2

Partitioned == p_pc \in {"sections", "returned", "ingested"} /\ lines # <<>>

CategoryBearing ==
    {i \in 1..Len(lines) : DetermineSectionType(lines[i]) # "other"}

\* Where sections start: at each category-bearing line, and at line 1.
SectionStarts == CategoryBearing \cup {1}

NthStart(k) ==
    CHOOSE s \in SectionStarts : Cardinality({x \in SectionStarts : x <= s}) = k

SectionEnd(k) ==
    IF k = Cardinality(SectionStarts) THEN Len(lines) ELSE NthStart(k + 1) - 1

LinesJoined(a, b) == JoinWith(SubSeq(lines, a, b), "\n")

\* C9: a section starts exactly at each category-bearing line, is labelled
\* with that line's category and holds the lines up to the next
\* category-bearing line; the lines before the first one form a leading
\* 'other' section (its text opens with the newline put before each of its
\* lines); sections come in document order; without a category-bearing
\* line there is one 'other' section; no section has an empty text.
C9_PartitionAtCategoryLines ==
    Partitioned =>
        /\ Len(document_sections) = Cardinality(SectionStarts)
        /\ \A k \in 1..Len(document_sections) :
               /\ document_sections[k].category =
                      DetermineSectionType(lines[NthStart(k)])
               /\ document_sections[k].content =
                      IF NthStart(k) \in CategoryBearing
                      THEN LinesJoined(NthStart(k), SectionEnd(k))
                      ELSE <<"\n">> \o LinesJoined(1, SectionEnd(k))
               /\ document_sections[k].content # <<>>
        /\ CategoryBearing = {} =>
               /\ Len(document_sections) = 1
               /\ document_sections[1].category = "other"

\* Witness of C9: a leading 'other' section, then a section of a heading
\* line and the line after it.
C9_Witness ==
    /\ p_pc = "sections"
    /\ Len(lines) = 3
    /\ Len(document_sections) = 2
    /\ document_sections[1].category = "other"
    /\ document_sections[2].category = "risk_factors"
    /\ DetermineSectionType(lines[3]) = "other"

IsWhitespaceOnly(text) == \A i \in 1..Len(text) : text[i] \in {" ", "\t", "\n"}

\* C10: for a filing whose text is empty or only spaces, tabs and newlines,
\* process_document returns an empty chunk sequence.
C10_BlankTextNoChunks ==
    (p_pc \in {"returned", "ingested"} /\ IsWhitespaceOnly(document.content_text))
        => text_segments = <<>>

\* Witness of C10: a text of blank lines went through partitioning and
\* splitting, and process_document returned.
C10_Witness ==
    /\ p_pc = "returned"
    /\ IsWhitespaceOnly(document.content_text)
    /\ Len(lines) >= 2
    /\ \E i \in 1..Len(lines) : lines[i] # <<>>
    /\ Len(document_sections) = 1
    /\ sec_pos = 2

\* C11: add_documents on no record makes no call to the engine; on a
\* non-empty sequence it makes exactly one add call whose ids, texts and
\* metadatas have the length of the input, the k-th entry of each coming
\* from the k-th record.
C11_OneBatchInProductionOrder ==
    p_pc = "ingested" =>
        IF text_segments = <<>>
        THEN add_calls = <<>>
        ELSE /\ Len(add_calls) = 1
             /\ Len(add_calls[1].ids) = Len(text_segments)
             /\ Len(add_calls[1].documents) = Len(text_segments)
             /\ Len(add_calls[1].metadatas) = Len(text_segments)
             /\ \A k \in 1..Len(text_segments) :
                    /\ add_calls[1].documents[k] = text_segments[k].text
                    /\ add_calls[1].metadatas[k] = text_segments[k].metadata
                    /\ add_calls[1].ids[k] =
                           text_segments[k].metadata.filing_id \o "_" \o
                               ToString(text_segments[k].metadata.chunk_index)

\* Witness of C11: a batch of three records of two sections was added.
C11_Witness ==
    /\ p_pc = "ingested"
    /\ Len(text_segments) = 3
    /\ Len(add_calls) = 1
    /\ text_segments[1].metadata.section # text_segments[3].metadata.section

-----------------------------------------------------------------------------
(* More on the filter builder (under SpecFilter)                           *)

WellFormedNode(node) ==
    node.op \in {"or", "and"} => Len(node.children) >= 2

\* C13: for every non-empty filter, one with an empty member list included,
\* every OR node and every AND node of the predicate has at least two
\* children.
C13_NoDegenerateConnective ==
    (f_pc = "built" /\ f_input.present /\ f_input.items # <<>>) =>
        /\ WellFormedNode(f_output)
        /\ f_output.op = "and" =>
               \A i \in 1..Len(f_output.children) :
                   WellFormedNode(f_output.children[i])

-----------------------------------------------------------------------------
(* Ingestion followed by search: the chunks process_document produced are  *)
(* what the engine holds and answers with.                                 *)

\* A chunk's metadata as the engine hands it back: the keys it was stored
\* with, metrics_summary absent.
StoredForm(md) ==
    [filing_id |-> md.filing_id,
     company_name |-> md.company_name,
     ticker |-> md.ticker,
     filing_type |-> md.filing_type,
     filing_date |-> md.filing_date,
     section |-> md.section,
     chunk_index |-> md.chunk_index,
     total_chunks |-> md.total_chunks,
     currency_amounts |-> md.currency_amounts,
     percentages |-> md.percentages,
     has_metrics |-> md.has_metrics,
     metrics_summary |-> <<>>]

\* The documents passed to document_collection.add so far.
IngestedDocs ==
    UNION { { [text |-> add_calls[c].documents[k],
               metadata |-> StoredForm(add_calls[c].metadatas[k])] :
                 k \in 1..Len(add_calls[c].documents) } :
            c \in 1..Len(add_calls) }

\* The filings that are ingested, then searched: one section holding two
\* currency amounts and a percentage; a heading followed by an amount; an
\* 'other' section with metrics followed by a section without.
IngestedTexts ==
    { JoinWith(<< <<"w", " ", " ", "$5", "#", "7%">>, <<"$5">> >>, "\n"),
      JoinWith(<< <<"Risk Factors">>, <<"$5">> >>, "\n"),
      JoinWith(<< <<"$5", " ", "7%">>, <<"Risk Factors">> >>, "\n"),
      <<"w">> }

\* search is called once the filing is ingested.
SearchIngested(lim) ==
    /\ p_pc = "ingested"
    /\ SearchCall(NoFilter, lim)

\* The engine answers with a ranking of documents it was given.
EngineAnswersIngested(cands) ==
    /\ \A i \in 1..Len(cands) : cands[i] \in IngestedDocs
    /\ EngineAnswers(cands)

InitRoundTrip ==
    /\ p_pc = "start"
    /\ document \in {FilingRecord(text) : text \in IngestedTexts}
    /\ lines = <<>>
    /\ line_pos = 1
    /\ document_sections = <<>>
    /\ current_content = <<>>
    /\ current_category = "other"
    /\ sec_pos = 1
    /\ text_segments = <<>>
    /\ add_calls = <<>>
    /\ SearchIdle
    /\ FilterOff
    /\ IngestOff

NextRoundTrip ==
    \/ ProcessDocument /\ UNCHANGED <<search_vars, filter_vars, ingest_vars>>
    \/ PartitionStep /\ UNCHANGED <<search_vars, filter_vars, ingest_vars>>
    \/ PartitionEnd /\ UNCHANGED <<search_vars, filter_vars, ingest_vars>>
    \/ ProcessSection /\ UNCHANGED <<search_vars, filter_vars, ingest_vars>>
    \/ ReturnSegments /\ UNCHANGED <<search_vars, filter_vars, ingest_vars>>
    \/ AddDocuments /\ UNCHANGED <<search_vars, filter_vars, ingest_vars>>
    \/ /\ \E lim \in 0..MaxLimit : SearchIngested(lim)
       /\ UNCHANGED <<filter_vars, process_vars, ingest_vars>>
    \/ /\ \E cands \in SeqsUpTo(IngestedDocs, MaxCand) :
              EngineAnswersIngested(cands)
       /\ UNCHANGED <<filter_vars, process_vars, ingest_vars>>
    \/ EngineRaises /\ UNCHANGED <<filter_vars, process_vars, ingest_vars>>
    \/ DedupStep /\ UNCHANGED <<filter_vars, process_vars, ingest_vars>>
    \/ ReturnResults /\ UNCHANGED <<filter_vars, process_vars, ingest_vars>>

SpecRoundTrip == InitRoundTrip /\ [][NextRoundTrip]_vars

\* The chunk records process_document produced that carry a returned text.
ProducedWithText(text) ==
    {k \in 1..Len(text_segments) : text_segments[k].text = text}

\* C12: a returned chunk carries a metrics_summary exactly when its
\* extracted currency_amounts or percentages are non-empty; the two counts
\* of the summary are the lengths of the sequences extracted when the chunk
\* was produced; a chunk without metrics comes back with the metadata it
\* was stored with.
C12_SummaryCountsRoundTrip ==
    Returned =>
        \A i \in 1..Len(ResultDocs) :
            LET md == ResultMetas[i]
                extracted == ExtractFinancialMetrics(ResultDocs[i])
                has == \/ extracted.currency_amounts # <<>>
                       \/ extracted.percentages # <<>>
            IN /\ (md.metrics_summary # <<>>) <=> has
               /\ (md.has_metrics = "true") <=> has
               /\ has => md.metrics_summary =
                             <<Len(extracted.currency_amounts),
                               Len(extracted.percentages)>>
               /\ \E k \in ProducedWithText(ResultDocs[i]) :
                      StoredForm(text_segments[k].metadata) =
                          IF has THEN Unannotated(md) ELSE md

\* Witness of C12: one returned chunk with two currency amounts and a
\* percentage, another without metrics.
C12_Witness ==
    /\ Returned
    /\ Len(ResultDocs) = 2
    /\ \E i, j \in 1..2 :
           /\ ResultMetas[i].metrics_summary = <<2, 1>>
           /\ ResultMetas[j].has_metrics = "false"
           /\ ResultMetas[j].metrics_summary = <<>>

-----------------------------------------------------------------------------
(* The ingestion loop                                                      *)

IngestDone == i_pc = "done"

\* The symbols attempted so far are the first symbols of the list, in order.
AttemptedInListOrder ==
    /\ Len(attempted) <= Len(Symbols)
    /\ \A k \in 1..Len(attempted) : attempted[k] = Symbols[k]

\* No filing of a symbol after the one the failure occurred at was processed.
RemainingFilingsAborted ==
    \A e \in 1..Len(errors) :
        \A k \in 1..Len(processed) :
            \A n \in (errors[e].at + 1)..MaxFilings :
                processed[k] # FetchedRecord(errors[e].symbol, n, <<>>).record_identifier

\* The engine's collection only grows, at its end.
CollectionKept ==
    /\ Len(collection') >= Len(collection)
    /\ SubSeq(collection', 1, Len(collection)) = collection

\* C14: whatever fails while a symbol is fetched, processed or added, the
\* loop goes on: the symbols are attempted in list order and the loop ends
\* with every symbol attempted; a failure leaves the remaining filings of
\* its symbol unprocessed; what the engine holds is never taken back.
C14_FailureNeverStopsLoop ==
    /\ [](AttemptedInListOrder /\ RemainingFilingsAborted)
    /\ [](IngestDone => attempted = Symbols)
    /\ [][CollectionKept]_vars
    /\ <>IngestDone

\* The first symbol fails at the first of its two filings, the second is
\* never processed; the second symbol is then fetched and its filing added.
C14_Witness ==
    /\ IngestDone
    /\ errors = <<[symbol |-> Symbols[1], at |-> 1, of |-> 2]>>
    /\ processed = <<FetchedRecord(Symbols[1], 1, <<>>).record_identifier,
                     FetchedRecord(Symbols[2], 1, <<>>).record_identifier>>
    /\ Len(collection) = 1
    /\ attempted = Symbols

=============================================================================
